---- MODULE Spec2Model ----
(***************************************************************************)
(* The environment discovery pipeline of                                   *)
(* src/client/pythonEnvironments/converter.ts: the provider adapter        *)
(* (ConvertLocator.iterEnvsIterator) and the reducer (iterEnvsIterator,    *)
(* resolveDifferencesInBackground, resolveEnvCollision), each a stage that *)
(* republishes an upstream iterator as a primary sequence plus a           *)
(* notification channel (didUpdate).                                       *)
(*                                                                         *)
(* One behaviour runs one stage instance (stage is fixed by Init) against  *)
(* an arbitrary upstream iterator and a consumer that pulls at its own     *)
(* pace.  Array indices are 0-based as in the source; a TLA+ sequence      *)
(* holds index i at position i + 1.                                        *)
(***************************************************************************)
EXTENDS Integers, Sequences, FiniteSets, TLC

\* ------------------------------------------------------------------ bounds
\* Records the upstream iterator may yield before it is exhausted.
MaxUp == 4
\* UpdateEvents the upstream notification source may emit.
MaxUpdates == 1

\* ------------------------------------------------------------- data shapes
\* JavaScript undefined, where a record is expected and where a kind is expected.
UndefinedEnv == [undefined |-> TRUE]
UndefinedKind == "undefined"

ExePaths == {"x1", "x2"}
EnvPaths == {"e1"}
\* The internal kind enumeration (PythonEnvKind).
PythonEnvKind == {"Conda", "Venv", "System", "Unknown"}
ExtensionIds == {"extA", "extB"}

\* The producers behind the reducer's upstream in the pipeline runs: each
\* reports every environment it finds with its own kind.
Producers ==
    {[extensionId |-> "extA", kind |-> "Venv"],
     [extensionId |-> "extB", kind |-> "System"]}

\* External envSources lists handed to the adapter in the pipeline runs: an
\* identifier outside the internal vocabulary, and two internal kinds.
EnvSourceLists == {<<"custom">>, <<"System", "Venv">>}

\* EnvInfo: the externally shaped record the adapter consumes.  The adapter
\* never compares identities, so its upstream reports one environment path.
EnvInfos ==
    [executablePath : {"x1"}, envPath : EnvPaths, envSources : EnvSourceLists]

\* BasicEnvInfo: the raw record the reducer consumes.
BasicEnvs ==
    {[executablePath |-> x, envPath |-> e, kind |-> p.kind,
      extensionId |-> p.extensionId] :
        x \in ExePaths, e \in EnvPaths, p \in Producers}

Range(s) == {s[i] : i \in DOMAIN s}

Identity(env) == <<env.executablePath, env.envPath>>

\* ----------------------------------------------------------------- events
ProgressEvent(s) ==
    [type |-> "progress", stage |-> s, index |-> -1,
     old |-> UndefinedEnv, update |-> UndefinedEnv]

UpdatedEvent(i, o, u) ==
    [type |-> "update", stage |-> "none", index |-> i, old |-> o, update |-> u]

isProgressEvent(event) == event.type = "progress"

\* vscode EventEmitter: fire delivers to the subscribers unless the emitter
\* was disposed; calls records what the current step passed to fire.
fire(du, event) ==
    [du EXCEPT !.calls = Append(@, event),
               !.events = IF du.disposed THEN @ ELSE Append(@, event)]

dispose(du) == [du EXCEPT !.disposed = TRUE]

\* ------------------------------------------------------------ adapter, pure
metadata == [extensionId |-> "extA"]

convertKind(source) == source

convertToBasicEnv(env) ==
    [executablePath |-> env.executablePath,
     envPath |-> env.envPath,
     kind |-> convertKind(IF Len(env.envSources) > 0
                          THEN env.envSources[1] ELSE UndefinedKind),
     extensionId |-> metadata.extensionId]

\* ------------------------------------------------------------ reducer, pure
convertBasicToComposite(env) ==
    [executablePath |-> env.executablePath,
     envPath |-> env.envPath,
     kind |-> <<env.kind>>,
     source |-> <<env.extensionId>>,
     extensionId |-> env.extensionId]

areSameEnv(a, b) ==
    a.executablePath = b.executablePath /\ a.envPath = b.envPath

KindRank(k) ==
    CASE k = "Conda" -> 1
      [] k = "Venv" -> 2
      [] k = "System" -> 3
      [] OTHER -> 4

ExtensionRank(e) == IF e = "extA" THEN 1 ELSE 2

sortKindFunction(a, b) == KindRank(a) - KindRank(b)

sortExtensionSource(a, b) == ExtensionRank(a) - ExtensionRank(b)

\* lodash union of two arrays: the unique values, in order of first occurrence.
RECURSIVE Uniq(_)
Uniq(s) ==
    IF s = <<>> THEN <<>>
    ELSE LET front == Uniq(SubSeq(s, 1, Len(s) - 1))
             x == s[Len(s)]
         IN IF x \in Range(front) THEN front ELSE Append(front, x)

\* The first array alone.
firstArray(a, b) == a

union(a, b) == Uniq(a \o b)

\* The three arrays joined, repeated values kept.
concat3(a, b, c) == a \o b \o c

union3(a, b, c) == Uniq(a \o b \o c)

\* Array.prototype.sort(sortKindFunction): a stable insertion of each element.
RECURSIVE InsertKind(_, _)
InsertKind(sorted, k) ==
    IF sorted = <<>> THEN <<k>>
    ELSE IF sortKindFunction(k, sorted[1]) < 0
         THEN <<k>> \o sorted
         ELSE <<sorted[1]>> \o InsertKind(Tail(sorted), k)

RECURSIVE SortKinds(_)
SortKinds(kinds) ==
    IF kinds = <<>> THEN <<>>
    ELSE InsertKind(SortKinds(SubSeq(kinds, 1, Len(kinds) - 1)), kinds[Len(kinds)])

\* getTopKind sorts the array it is given in place and returns its head.
getTopKind(kinds) == SortKinds(kinds)[1]

\* The operand as getTopKind leaves it: its kind array sorted in place.
KindsSortedInPlace(env) == [env EXCEPT !.kind = SortKinds(@)]

\* The comparator of sortEnvInfoByPriority.
comparePriority(a, b) ==
    LET kindDiff == sortKindFunction(getTopKind(a.kind), getTopKind(b.kind))
    IN IF kindDiff # 0 THEN kindDiff ELSE sortExtensionSource(a.extensionId, b.extensionId)

\* A sort that puts newEnv first when the comparator ties.
sortEnvInfoNewFirstOnTie(oldEnv, newEnv) ==
    IF comparePriority(oldEnv, newEnv) >= 0
    THEN <<KindsSortedInPlace(newEnv), KindsSortedInPlace(oldEnv)>>
    ELSE <<KindsSortedInPlace(oldEnv), KindsSortedInPlace(newEnv)>>

\* envs.sort of the two operands (stable: a tie keeps oldEnv first); the
\* elements are the operands themselves, after getTopKind sorted their kinds.
sortEnvInfoByPriority(oldEnv, newEnv) ==
    IF comparePriority(oldEnv, newEnv) > 0
    THEN <<KindsSortedInPlace(newEnv), KindsSortedInPlace(oldEnv)>>
    ELSE <<KindsSortedInPlace(oldEnv), KindsSortedInPlace(newEnv)>>

\* A merge that unions the base with the new record only.
resolveEnvCollisionBaseAndNew(oldEnv, newEnv) ==
    LET env == sortEnvInfoByPriority(oldEnv, newEnv)[1]
        n == KindsSortedInPlace(newEnv)
    IN [env EXCEPT !.source = union(env.source, n.source),
                   !.kind = union(env.kind, n.kind)]

resolveEnvCollision(oldEnv, newEnv) ==
    LET env == sortEnvInfoByPriority(oldEnv, newEnv)[1]
        o == KindsSortedInPlace(oldEnv)
        n == KindsSortedInPlace(newEnv)
    IN [env EXCEPT !.source = union(o.source, n.source),
                   !.kind = union3(env.kind, o.kind, n.kind)]

\* lodash isEqual: deep equality, arrays compared element by element.
isEqual(a, b) == a = b

\* seen.findIndex((s) => areSameEnv(s, currEnv)), 0-based, -1 when absent.
findIndex(buf, env) ==
    IF \E i \in DOMAIN buf : areSameEnv(buf[i], env)
    THEN (CHOOSE i \in DOMAIN buf :
            /\ areSameEnv(buf[i], env)
            /\ \A j \in DOMAIN buf : areSameEnv(buf[j], env) => i <= j) - 1
    ELSE -1

\* seen[index] !== undefined
isSeen(buf, index) == index + 1 \in DOMAIN buf

\* ------------------------------------------------------------------ state
VARIABLES
    stage,          \* "adapter" or "reducer": the stage this behaviour runs
    hasOnUpdated,   \* iterator.onUpdated !== undefined
    pc,             \* the generator's position: init, awaitUp, yielded, end
    currEnv,        \* the generator's local currEnv while it is live (suspended at yield)
    state,          \* { done, pending }
    seen,           \* the stage's buffer
    listening,      \* the listener on iterator.onUpdated is subscribed
    didUpdate,      \* the stage's EventEmitter
    upIds,          \* the identities of what the upstream iterator has yielded
    upDone,         \* the upstream iterator has returned done
    upStarted,      \* the upstream source has emitted Started
    upFinished,     \* the upstream source has emitted Finished
    nUpdates,       \* UpdateEvents the upstream source has emitted
    yielded,        \* history: the records yielded on the primary sequence
    last,           \* history: the step just taken
    reported,       \* history: the records the upstream iterator gave the reducer
    pure            \* the operands and results of a direct call of a pure function

vars ==
    <<stage, hasOnUpdated, pc, currEnv, state, seen, listening, didUpdate,
      upIds, upDone, upStarted, upFinished, nUpdates, yielded, last, reported,
      pure>>

\* The record of a step: the operation, the upstream index it handled, the
\* stage's index it touched, the buffer entry it found and the record it handled.
Step(op, upIndex, index, old, new) ==
    [op |-> op, upIndex |-> upIndex, index |-> index, old |-> old, new |-> new]

\* What a listener step records of event.update when it is not undefined.
SomeRecord == [undefined |-> FALSE]

NoStep == Step("init", -1, -1, UndefinedEnv, UndefinedEnv)

NoCall == [phase |-> "none"]

Init ==
    /\ stage \in {"adapter", "reducer"}
    /\ hasOnUpdated \in BOOLEAN
    /\ pc = "init"
    /\ currEnv = UndefinedEnv
    /\ state = [done |-> FALSE, pending |-> 0]
    /\ seen = <<>>
    /\ listening = FALSE
    /\ didUpdate = [disposed |-> FALSE, events |-> <<>>, calls |-> <<>>]
    /\ upIds = <<>>
    /\ upDone = FALSE
    /\ upStarted = FALSE
    /\ upFinished = FALSE
    /\ nUpdates = 0
    /\ yielded = <<>>
    /\ last = NoStep
    /\ reported = {}
    /\ pure = NoCall

\* The emitter as a step finds it: nothing passed to fire yet in this step.
Quiet(du) == [du EXCEPT !.calls = <<>>]

\* ------------------------------------------------------ completion tracker
\* A completion check that fires Finished and leaves the emitter open.
checkIfFinishedWithoutDispose(st, du) ==
    IF st.done /\ st.pending = 0
    THEN fire(du, ProgressEvent("Finished"))
    ELSE du

\* A completion check that closes the emitter without firing Finished.
checkIfFinishedAndClose(st, du) ==
    IF st.done /\ st.pending = 0
    THEN dispose(du)
    ELSE du

checkIfFinishedAndNotify(st, du) ==
    IF st.done /\ st.pending = 0
    THEN dispose(fire(du, ProgressEvent("Finished")))
    ELSE du

\* ------------------------------------------------ the onUpdated listener
\* The conversion the listener of a stage applies to event.update.
ConvertUpdate(which, update) ==
    IF which = "adapter"
    THEN convertToBasicEnv(update)
    ELSE convertBasicToComposite(update)

\* The listener's effect on { state, didUpdate, seen, listening } in the stage
\* which; thrown is TRUE when the listener threw and the statements after the
\* branch did not run.
ListenerEffect(which, event, st, du, buf) ==
    LET s1 == [st EXCEPT !.pending = @ + 1]
    IN IF isProgressEvent(event)
       THEN IF event.stage = "Finished"
            THEN LET s2 == [s1 EXCEPT !.done = TRUE]
                     s3 == [s2 EXCEPT !.pending = @ - 1]
                 IN [state |-> s3, didUpdate |-> checkIfFinishedAndNotify(s3, du),
                     seen |-> buf, listening |-> FALSE, thrown |-> FALSE]
            ELSE LET du1 == fire(du, event)
                     s3 == [s1 EXCEPT !.pending = @ - 1]
                 IN [state |-> s3, didUpdate |-> checkIfFinishedAndNotify(s3, du1),
                     seen |-> buf, listening |-> TRUE, thrown |-> FALSE]
       ELSE IF event.update = UndefinedEnv
            THEN [state |-> s1, didUpdate |-> du, seen |-> buf,
                  listening |-> TRUE, thrown |-> TRUE]
            ELSE IF isSeen(buf, event.index)
                 THEN LET oldEnv == buf[event.index + 1]
                          buf1 == [buf EXCEPT ![event.index + 1] =
                                       ConvertUpdate(which, event.update)]
                          du1 == fire(du, UpdatedEvent(event.index, oldEnv,
                                           ConvertUpdate(which, event.update)))
                          s3 == [s1 EXCEPT !.pending = @ - 1]
                      IN [state |-> s3, didUpdate |-> checkIfFinishedAndNotify(s3, du1),
                          seen |-> buf1, listening |-> TRUE, thrown |-> FALSE]
                 ELSE LET s3 == [s1 EXCEPT !.pending = @ - 1]
                      IN [state |-> s3, didUpdate |-> checkIfFinishedAndNotify(s3, du),
                          seen |-> buf, listening |-> TRUE, thrown |-> FALSE]

AdapterListener(event) ==
    ListenerEffect("adapter", event, state, Quiet(didUpdate), seen)

ReducerListener(event) ==
    ListenerEffect("reducer", event, state, Quiet(didUpdate), seen)

\* A listener that forwards an update for an index its buffer does not hold.
StageListenerForwardsUnseen(event) ==
    LET eff == IF stage = "adapter"
               THEN AdapterListener(event)
               ELSE ReducerListener(event)
    IN IF /\ ~isProgressEvent(event)
          /\ event.update # UndefinedEnv
          /\ ~isSeen(seen, event.index)
       THEN [eff EXCEPT !.didUpdate =
                 fire(@, UpdatedEvent(event.index, UndefinedEnv,
                                      ConvertUpdate(stage, event.update)))]
       ELSE eff

\* A listener that logs an undefined update and carries on.
StageListenerLogsUndefined(event) ==
    LET eff == IF stage = "adapter"
               THEN AdapterListener(event)
               ELSE ReducerListener(event)
    IN IF eff.thrown
       THEN [eff EXCEPT !.thrown = FALSE, !.state = state]
       ELSE eff

StageListener(event) ==
    IF stage = "adapter" THEN AdapterListener(event) ELSE ReducerListener(event)

\* What the upstream iterator yields to this stage.
UpstreamRecords == IF stage = "adapter" THEN EnvInfos ELSE BasicEnvs

\* The updates the upstream source may send for its index: a refinement of
\* the record it yielded there (same identity), any record for an index it
\* has not yielded, or undefined.
UpstreamUpdates(index) ==
    {r \in UpstreamRecords :
        index < Len(upIds) => Identity(r) = upIds[index + 1]}
    \cup {UndefinedEnv}

Deliver(event, op) ==
    /\ listening
    /\ ~upFinished
    /\ LET eff == StageListener(event)
       IN /\ state' = eff.state
          /\ didUpdate' = eff.didUpdate
          /\ seen' = eff.seen
          /\ listening' = eff.listening
          /\ last' = Step(IF eff.thrown THEN "throw" ELSE op, event.index, -1,
                           UndefinedEnv,
                           IF event.update = UndefinedEnv
                           THEN UndefinedEnv ELSE SomeRecord)
    /\ UNCHANGED <<pure, reported, stage, hasOnUpdated, pc, currEnv, upIds, upDone, yielded>>

\* The upstream source emits Started, before any of its data and updates.
UpstreamStarted ==
    /\ ~upStarted
    /\ upIds = <<>>
    /\ nUpdates = 0
    /\ Deliver(ProgressEvent("Started"), "started")
    /\ upStarted' = TRUE
    /\ UNCHANGED <<upFinished, nUpdates>>

\* The upstream source emits Finished (once; its channel closes after it).
UpstreamFinished ==
    /\ Deliver(ProgressEvent("Finished"), "finished")
    /\ upFinished' = TRUE
    /\ UNCHANGED <<upStarted, nUpdates>>

\* The upstream source emits an UpdateEvent.
UpstreamUpdate ==
    /\ nUpdates < MaxUpdates
    /\ \E index \in 0..Len(upIds) : \E update \in UpstreamUpdates(index) :
           Deliver(UpdatedEvent(index, UndefinedEnv, update), "update")
    /\ nUpdates' = nUpdates + 1
    /\ UNCHANGED <<upStarted, upFinished>>

\* ---------------------------------------------------------- the generators
\* The first next(): the body runs to its first await iterator.next().
Start ==
    /\ pc = "init"
    /\ pc' = "awaitUp"
    /\ IF hasOnUpdated
       THEN /\ listening' = TRUE
            /\ didUpdate' = Quiet(didUpdate)
       ELSE /\ listening' = FALSE
            /\ didUpdate' = fire(Quiet(didUpdate), ProgressEvent("Started"))
    /\ last' = Step("start", -1, -1, UndefinedEnv, UndefinedEnv)
    /\ UNCHANGED <<pure, reported, stage, hasOnUpdated, currEnv, state, seen, upIds, upDone,
                   upStarted, upFinished, nUpdates, yielded>>

\* The upstream iterator yields r to the adapter, which converts and yields it.
AdapterNext ==
    /\ stage = "adapter"
    /\ pc = "awaitUp"
    /\ ~upDone
    /\ Len(upIds) < MaxUp
    /\ \E r \in EnvInfos :
        /\ upIds' = Append(upIds, Identity(r))
        /\ currEnv' = convertToBasicEnv(r)
        /\ yielded' = Append(yielded, convertToBasicEnv(r))
        /\ last' = Step("yield", Len(upIds), Len(yielded), UndefinedEnv,
                         convertToBasicEnv(r))
    /\ pc' = "yielded"
    /\ didUpdate' = Quiet(didUpdate)
    /\ UNCHANGED <<pure, reported, stage, hasOnUpdated, state, seen, listening, upDone,
                   upStarted, upFinished, nUpdates>>

\* A background merge that reports the position after the merged entry.
resolveDifferencesOffByOne(oldIndex, newEnv, st, du, buf) ==
    LET s1 == [st EXCEPT !.pending = @ + 1]
        oldEnv == KindsSortedInPlace(buf[oldIndex + 1])
        merged == resolveEnvCollision(buf[oldIndex + 1], newEnv)
        differs == ~isEqual(oldEnv, merged)
        buf1 == [buf EXCEPT ![oldIndex + 1] = IF differs THEN merged ELSE oldEnv]
        du1 == IF differs
               THEN fire(du, UpdatedEvent(oldIndex + 1, oldEnv, merged))
               ELSE du
        s2 == [s1 EXCEPT !.pending = @ - 1]
    IN [state |-> s2, didUpdate |-> checkIfFinishedAndNotify(s2, du1), seen |-> buf1]

\* A background merge that replaces and reports without comparing.
resolveDifferencesAlways(oldIndex, newEnv, st, du, buf) ==
    LET s1 == [st EXCEPT !.pending = @ + 1]
        oldEnv == KindsSortedInPlace(buf[oldIndex + 1])
        merged == resolveEnvCollision(buf[oldIndex + 1], newEnv)
        buf1 == [buf EXCEPT ![oldIndex + 1] = merged]
        du1 == fire(du, UpdatedEvent(oldIndex, oldEnv, merged))
        s2 == [s1 EXCEPT !.pending = @ - 1]
    IN [state |-> s2, didUpdate |-> checkIfFinishedAndNotify(s2, du1), seen |-> buf1]

resolveDifferencesInBackground(oldIndex, newEnv, st, du, buf) ==
    LET s1 == [st EXCEPT !.pending = @ + 1]
        oldEnv == KindsSortedInPlace(buf[oldIndex + 1])
        merged == resolveEnvCollision(buf[oldIndex + 1], newEnv)
        differs == ~isEqual(oldEnv, merged)
        buf1 == [buf EXCEPT ![oldIndex + 1] = IF differs THEN merged ELSE oldEnv]
        du1 == IF differs
               THEN fire(du, UpdatedEvent(oldIndex, oldEnv, merged))
               ELSE du
        s2 == [s1 EXCEPT !.pending = @ - 1]
    IN [state |-> s2, didUpdate |-> checkIfFinishedAndNotify(s2, du1), seen |-> buf1]

\* The upstream iterator yields r to the reducer: a record whose identity is
\* in the buffer is merged in the background and the loop goes on to the next
\* iterator.next(); any other record is yielded.
ReducerNext ==
    /\ stage = "reducer"
    /\ pc = "awaitUp"
    /\ ~upDone
    /\ Len(upIds) < MaxUp
    /\ \E r \in BasicEnvs :
        LET env == convertBasicToComposite(r)
            oldIndex == findIndex(seen, env)
        IN /\ upIds' = Append(upIds, Identity(r))
           /\ reported' = reported \cup {r}
           /\ currEnv' = (IF oldIndex # -1 THEN UndefinedEnv ELSE env)
           /\ IF oldIndex # -1
              THEN LET res == resolveDifferencesInBackground(
                                  oldIndex, env, state, Quiet(didUpdate), seen)
                   IN /\ state' = res.state
                      /\ didUpdate' = res.didUpdate
                      /\ seen' = res.seen
                      /\ pc' = "awaitUp"
                      /\ yielded' = yielded
                      /\ last' = Step("collision", Len(upIds), oldIndex,
                                       seen[oldIndex + 1], env)
              ELSE /\ pc' = "yielded"
                   /\ yielded' = Append(yielded, env)
                   /\ didUpdate' = Quiet(didUpdate)
                   /\ last' = Step("yield", Len(upIds), Len(yielded),
                                    UndefinedEnv, env)
                   /\ UNCHANGED <<state, seen>>
    /\ UNCHANGED <<pure, stage, hasOnUpdated, listening, upDone, upStarted, upFinished,
                   nUpdates>>

\* The consumer asks for the next value: the generator resumes after its
\* yield, appends currEnv to the buffer and awaits iterator.next().
Resume ==
    /\ pc = "yielded"
    /\ seen' = Append(seen, currEnv)
    /\ currEnv' = UndefinedEnv
    /\ pc' = "awaitUp"
    /\ didUpdate' = Quiet(didUpdate)
    /\ last' = Step("push", -1, Len(seen), UndefinedEnv, UndefinedEnv)
    /\ UNCHANGED <<pure, reported, stage, hasOnUpdated, state, listening, upIds, upDone,
                   upStarted, upFinished, nUpdates, yielded>>

\* The upstream iterator is exhausted: the loop ends and the generator returns.
UpstreamDone ==
    /\ pc = "awaitUp"
    /\ ~upDone
    /\ upDone' = TRUE
    /\ pc' = "end"
    /\ IF ~hasOnUpdated
       THEN LET s1 == [state EXCEPT !.done = TRUE]
            IN /\ state' = s1
               /\ didUpdate' = checkIfFinishedAndNotify(s1, Quiet(didUpdate))
       ELSE /\ state' = state
            /\ didUpdate' = Quiet(didUpdate)
    /\ last' = Step("done", -1, -1, UndefinedEnv, UndefinedEnv)
    /\ UNCHANGED <<pure, reported, stage, hasOnUpdated, currEnv, seen, listening, upIds,
                   upStarted, upFinished, nUpdates, yielded>>

Next ==
    \/ Start
    \/ AdapterNext
    \/ ReducerNext
    \/ Resume
    \/ UpstreamDone
    \/ UpstreamStarted
    \/ UpstreamFinished
    \/ UpstreamUpdate

Spec == Init /\ [][Next]_vars

\* ------------------------------------------------ direct calls, pure functions
PureKinds == {"Conda", "Venv", "System"}

\* The arrays without repetition over a set of at most three elements.
ArraysOver(S) ==
    {<<x>> : x \in S}
    \cup {s \in S \X S : s[1] # s[2]}
    \cup {s \in S \X S \X S : s[1] # s[2] /\ s[1] # s[3] /\ s[2] # s[3]}

\* CompositeEnvInfo values of one identity, as the reducer's buffer can hold
\* them: kind and source are non-empty arrays without repetition, and the
\* record's own extensionId is among its sources.
CompositeEnvs ==
    {[executablePath |-> "x1", envPath |-> "e1", kind |-> k, source |-> src,
      extensionId |-> e] :
        k \in ArraysOver(PureKinds),
        src \in ArraysOver(ExtensionIds),
        e \in ExtensionIds}

PureInit ==
    /\ stage = "reducer"
    /\ hasOnUpdated = FALSE
    /\ pc = "init"
    /\ currEnv = UndefinedEnv
    /\ state = [done |-> FALSE, pending |-> 0]
    /\ seen = <<>>
    /\ listening = FALSE
    /\ didUpdate = [disposed |-> FALSE, events |-> <<>>, calls |-> <<>>]
    /\ upIds = <<>>
    /\ upDone = FALSE
    /\ upStarted = FALSE
    /\ upFinished = FALSE
    /\ nUpdates = 0
    /\ yielded = <<>>
    /\ last = NoStep
    /\ reported = {}
    /\ \E a \in CompositeEnvs, b \in CompositeEnvs :
          /\ a.extensionId \in Range(a.source)
          /\ b.extensionId \in Range(b.source)
          /\ pure = [phase |-> "call", a |-> a, b |-> b]

\* A fresh stage: nothing pending, nothing fired.
FreshState == [done |-> FALSE, pending |-> 0]

FreshEmitter == [disposed |-> FALSE, events |-> <<>>, calls |-> <<>>]

\* resolveEnvCollision is called on (a, b), on (b, a) and on (a, a); aAfter
\* and bAfter are the operands as the call on (a, b) leaves them; twice is
\* resolveDifferencesInBackground merging a into a buffer whose entry 0 is a.
CallResolveEnvCollision ==
    /\ pure.phase = "call"
    /\ pure' = [phase |-> "returned", a |-> pure.a, b |-> pure.b,
                ab |-> resolveEnvCollision(pure.a, pure.b),
                ba |-> resolveEnvCollision(pure.b, pure.a),
                aa |-> resolveEnvCollision(pure.a, pure.a),
                twice |-> resolveDifferencesInBackground(
                              0, pure.a, FreshState, FreshEmitter, <<pure.a>>),
                aAfter |-> KindsSortedInPlace(pure.a),
                bAfter |-> KindsSortedInPlace(pure.b)]
    /\ UNCHANGED <<stage, hasOnUpdated, pc, currEnv, state, seen, listening,
                   didUpdate, upIds, upDone, upStarted, upFinished, nUpdates,
                   yielded, last, reported>>

PureNext == CallResolveEnvCollision

PureSpec == PureInit /\ [][PureNext]_vars

\* ================================================================= claims
FinishedEvent == ProgressEvent("Finished")

\* Finished has been delivered to the subscribers of didUpdate.
FinishedEmitted == FinishedEvent \in Range(didUpdate.events)

\* The update events the step just taken passed to didUpdate.fire.
UpdateCalls == {e \in Range(didUpdate.calls) : e.type = "update"}

\* C10: resolveEnvCollision is commutative on the source and kind sets: for
\* records a and b of one identity, resolveEnvCollision(a, b) and
\* resolveEnvCollision(b, a) have equal source sets and equal kind sets.
C10_CollisionCommutesOnSets ==
    pure.phase = "returned" =>
        /\ Range(pure.ab.source) = Range(pure.ba.source)
        /\ Range(pure.ab.kind) = Range(pure.ba.kind)

\* A call on two different records whose two results differ as records (in
\* the base or in the order of an array) while their sets agree.
C10_Witness ==
    /\ pure.phase = "returned"
    /\ pure.a # pure.b
    /\ pure.ab # pure.ba
    /\ Range(pure.ab.kind) = Range(pure.a.kind) \cup Range(pure.b.kind)
    /\ Cardinality(Range(pure.ab.kind)) = 3

\* The identities of the records yielded on the primary sequence, in order.
YieldedIds == [i \in DOMAIN yielded |-> Identity(yielded[i])]

\* C1: once the reducer's primary sequence has been fully consumed, no two
\* records yielded on it share an identity (executablePath, envPath).
C1_NoDuplicateIdentities ==
    (stage = "reducer" /\ pc = "end") =>
        \A i, j \in DOMAIN yielded :
            i # j => Identity(yielded[i]) # Identity(yielded[j])

\* C2: a stage's Finished is emitted only after the upstream primary sequence
\* has been exhausted, with the in-flight counter at 0; an upstream Finished
\* that arrives earlier does not by itself cause it.
C2_FinishedOnlyAfterExhaustion ==
    /\ FinishedEmitted => upDone
    /\ FinishedEvent \in Range(didUpdate.calls) => state.pending = 0

\* C3: Finished is delivered to subscribers at most once and is terminal:
\* nothing is delivered on the stage's channel after it.
C3_FinishedOnceAndTerminal ==
    \A i \in DOMAIN didUpdate.events :
        didUpdate.events[i] = FinishedEvent => i = Len(didUpdate.events)

\* Finished was delivered earlier, and the step just taken (a background
\* merge) passed an UpdateEvent and a second Finished to fire.
C3_Witness ==
    /\ last.op = "collision"
    /\ FinishedEmitted
    /\ UpdateCalls # {}
    /\ FinishedEvent \in Range(didUpdate.calls)

\* C4: once the consumer has pulled the primary sequence to exhaustion and the
\* upstream source, if there is one, has emitted its Finished, the stage has
\* emitted Finished (no step that could still emit it remains).
C4_FinishedAfterExhaustion ==
    (pc = "end" /\ (hasOnUpdated => upFinished)) => FinishedEmitted

\* The reducer's own index of the logical record behind upstream index u: the
\* position at which the record of that identity was first yielded.
OwnIndex(u) ==
    IF \E i \in DOMAIN yielded : Identity(yielded[i]) = upIds[u + 1]
    THEN (CHOOSE i \in DOMAIN yielded :
            /\ Identity(yielded[i]) = upIds[u + 1]
            /\ \A j \in DOMAIN yielded :
                   Identity(yielded[j]) = upIds[u + 1] => i <= j) - 1
    ELSE -1

\* C5: for an upstream UpdateEvent that targets a record already in the
\* reducer's buffer, the reducer republishes an UpdateEvent whose index is its
\* own buffer position of that logical record, not the upstream index.
C5_RepublishedAtOwnIndex ==
    (/\ stage = "reducer"
     /\ last.op = "update"
     /\ last.upIndex < Len(upIds)
     /\ OwnIndex(last.upIndex) # -1
     /\ OwnIndex(last.upIndex) < Len(seen)) =>
        /\ UpdateCalls # {}
        /\ \A e \in UpdateCalls : e.index = OwnIndex(last.upIndex)

\* C6: at every buffer index of the reducer the source set and the kind set
\* are never empty and never lose an element from one step to the next.
C6_SourceAndKindOnlyGrow ==
    [][stage = "reducer" =>
         \A i \in DOMAIN seen :
            /\ Range(seen[i].source) # {}
            /\ Range(seen[i].kind) # {}
            /\ Range(seen[i].source) \subseteq Range(seen'[i].source)
            /\ Range(seen[i].kind) \subseteq Range(seen'[i].kind)]_vars

\* C7: every UpdateEvent a stage emits carries an index that the stage has
\* already yielded on its own primary sequence when the event is emitted.
C7_UpdateIndexAlreadyYielded ==
    \A e \in UpdateCalls : 0 <= e.index /\ e.index < Len(yielded)

\* The listener just republished an upstream update for the last position the
\* stage has yielded and pushed.
C7_Witness ==
    /\ last.op = "update"
    /\ Len(yielded) >= 2
    /\ \E e \in UpdateCalls : e.index = Len(yielded) - 1

\* C8: the reducer's primary sequence is the first occurrence of each
\* identity, in upstream order, and every distinct upstream identity pulled
\* so far has been yielded.
C8_FirstSeenOrder ==
    stage = "reducer" => YieldedIds = Uniq(upIds)

\* The record as the spec compares it: fields, and kind and source as sets.
SameRecord(a, b) ==
    /\ a.executablePath = b.executablePath
    /\ a.envPath = b.envPath
    /\ a.extensionId = b.extensionId
    /\ Range(a.kind) = Range(b.kind)
    /\ Range(a.source) = Range(b.source)

\* C9: a record matching buffer entry old at index i is not yielded; with
\* merged = resolveEnvCollision(old, new), the reducer fires
\* UpdateEvent{i, old, merged} and replaces entry i by merged if merged differs
\* from old, and otherwise fires no UpdateEvent and leaves the buffer as it is.
C9_CollisionUpdatesIffDifferent ==
    [][(stage = "reducer" /\ last'.op = "collision") =>
         LET i == last'.index
             old == seen[i + 1]
             calls == {e \in Range(didUpdate'.calls) : e.type = "update"}
         IN \A merged \in {resolveEnvCollision(old, last'.new)} :
            /\ yielded' = yielded
            /\ pc' = "awaitUp"
            /\ Len(seen') = Len(seen)
            /\ \A j \in DOMAIN seen : j # i + 1 => seen'[j] = seen[j]
            /\ IF ~SameRecord(merged, old)
               THEN /\ seen'[i + 1] = merged
                    /\ Cardinality(calls) = 1
                    /\ \A e \in calls :
                          /\ e.index = i
                          /\ SameRecord(e.old, old)
                          /\ e.update = merged
               ELSE /\ calls = {}
                    /\ SameRecord(seen'[i + 1], old)]_vars

\* A duplicate that adds a source and a kind was just merged into entry 0,
\* with an UpdateEvent fired for it.
C9_Witness ==
    /\ last.op = "collision"
    /\ UpdateCalls # {}
    /\ \A e \in UpdateCalls :
          /\ e.update = seen[last.index + 1]
          /\ Cardinality(Range(e.update.source)) = 2
          /\ Cardinality(Range(e.old.source)) = 1

\* C11: resolveEnvCollision is idempotent: for every record A,
\* resolveEnvCollision(A, A) has the same source set and the same kind set as
\* A, and merging A into a buffer entry equal to A (the record reported twice
\* by the same producer with the same kind) fires no UpdateEvent and leaves
\* the entry's sets as they are.
C11_CollisionIdempotent ==
    pure.phase = "returned" =>
        /\ Range(pure.aa.source) = Range(pure.a.source)
        /\ Range(pure.aa.kind) = Range(pure.a.kind)
        /\ pure.twice.didUpdate.calls = <<>>
        /\ SameRecord(pure.twice.seen[1], pure.a)

\* A self-merge of a record with three kinds held out of rank order and two
\* sources: the result is the record with its kinds in rank order.
C11_Witness ==
    /\ pure.phase = "returned"
    /\ Len(pure.a.kind) = 3
    /\ Len(pure.a.source) = 2
    /\ pure.a.kind # SortKinds(pure.a.kind)
    /\ pure.aa = KindsSortedInPlace(pure.a)
    /\ pure.twice.didUpdate.calls = <<>>

\* The records the upstream iterator reported for an identity.
ReportedFor(id) == {r \in reported : Identity(r) = id}

\* C12: when the reducer has consumed an upstream sequence to exhaustion with
\* no upstream UpdateEvent, the buffer holds for each reported identity one
\* entry, whose source is exactly the set of providers that reported the
\* identity and whose kind is exactly the set of kinds reported for it,
\* whatever the order of arrival.
C12_BufferHoldsAllReported ==
    (stage = "reducer" /\ pc = "end" /\ nUpdates = 0) =>
        \A id \in Range(upIds) :
            /\ Cardinality({i \in DOMAIN seen : Identity(seen[i]) = id}) = 1
            /\ \A i \in DOMAIN seen :
                  Identity(seen[i]) = id =>
                    /\ Range(seen[i].source) =
                           {r.extensionId : r \in ReportedFor(id)}
                    /\ Range(seen[i].kind) = {r.kind : r \in ReportedFor(id)}

\* Exhaustion after two identities were each reported by both producers, in
\* opposite orders, with no upstream UpdateEvent.
C12_Witness ==
    /\ stage = "reducer"
    /\ pc = "end"
    /\ nUpdates = 0
    /\ Len(upIds) = 4
    /\ Len(seen) = 2
    /\ reported = BasicEnvs
    /\ seen[1].source = <<"extA", "extB">>
    /\ seen[2].source = <<"extB", "extA">>

StartedEvent == ProgressEvent("Started")

\* The upstream identities pulled so far are pairwise distinct (the adapter
\* compares no identities, so any upstream sequence qualifies for it).
DistinctUpstream ==
    stage = "reducer" =>
        \A i, j \in DOMAIN upIds : i # j => upIds[i] # upIds[j]

\* C13: when the upstream exposes no notification source and yields records
\* of distinct identities, the stage's channel delivers exactly one Started,
\* before the first primary value, then one Finished once the primary
\* sequence is exhausted, and no UpdateEvent.
C13_StartedThenFinishedOnly ==
    (~hasOnUpdated /\ DistinctUpstream) =>
        /\ pc = "init" => (didUpdate.events = <<>> /\ yielded = <<>>)
        /\ pc \in {"awaitUp", "yielded"} => didUpdate.events = <<StartedEvent>>
        /\ pc = "end" => didUpdate.events = <<StartedEvent, FinishedEvent>>

\* The reducer, with no upstream notification source, has yielded two
\* records of distinct identities and the sequence is exhausted.
C13_Witness ==
    /\ ~hasOnUpdated
    /\ stage = "reducer"
    /\ pc = "end"
    /\ Len(upIds) = 2
    /\ Len(yielded) = 2
    /\ DistinctUpstream
    /\ didUpdate.events = <<StartedEvent, FinishedEvent>>

\* C14: an upstream UpdateEvent that carries a record and an index the stage
\* has not yet yielded on its primary sequence is dropped: the listener does
\* not throw, nothing is passed to didUpdate.fire, and the buffer, the
\* in-flight state, the emitter, the subscription and the generator are left
\* as they were, so the stream goes on to completion as it would have
\* without the event.
C14_UnyieldedIndexDropped ==
    [][(/\ nUpdates' = nUpdates + 1
        /\ last'.new # UndefinedEnv
        /\ last'.upIndex >= Len(yielded)) =>
           /\ last'.op = "update"
           /\ didUpdate'.calls = <<>>
           /\ didUpdate'.events = didUpdate.events
           /\ didUpdate'.disposed = didUpdate.disposed
           /\ seen' = seen
           /\ state' = state
           /\ listening' = listening
           /\ pc' = pc
           /\ currEnv' = currEnv
           /\ yielded' = yielded]_vars

\* The listener has just dropped an update that carried a record for index
\* 3 when the stage had yielded two records, with the upstream not exhausted.
C14_Witness ==
    /\ nUpdates = 1
    /\ last.op = "update"
    /\ last.new # UndefinedEnv
    /\ last.upIndex = 3
    /\ Len(yielded) = 2
    /\ Len(seen) = 2
    /\ ~upDone
    /\ didUpdate.calls = <<>>
    /\ state.pending = 0

\* C15: an upstream UpdateEvent whose update is undefined makes the listener
\* throw: nothing is passed to didUpdate.fire for it, nothing is delivered,
\* and the buffer is left unchanged.
C15_UndefinedUpdateThrows ==
    [][(nUpdates' = nUpdates + 1 /\ last'.new = UndefinedEnv) =>
           /\ last'.op = "throw"
           /\ didUpdate'.calls = <<>>
           /\ didUpdate'.events = didUpdate.events
           /\ seen' = seen]_vars

\* The listener has just thrown on an undefined update for an index its
\* buffer holds.
C15_Witness ==
    /\ nUpdates = 1
    /\ last.op = "throw"
    /\ last.new = UndefinedEnv
    /\ isSeen(seen, last.upIndex)
    /\ Len(seen) = 2
    /\ didUpdate.calls = <<>>

\* C16: resolveEnvCollision does not mutate its operands: each operand,
\* including the order and content of its kind and source arrays, is the same
\* after resolveEnvCollision(old, new) as before it.
C16_OperandsNotMutated ==
    pure.phase = "returned" =>
        /\ pure.aAfter = pure.a
        /\ pure.bAfter = pure.b

\* C17: every record the adapter produces, on its primary sequence or as the
\* update of an UpdateEvent, carries a kind of the internal enumeration
\* (an external identifier outside it having been translated to Unknown).
C17_AdapterKindsInternal ==
    stage = "adapter" =>
        /\ \A i \in DOMAIN yielded : yielded[i].kind \in PythonEnvKind
        /\ \A e \in UpdateCalls : e.update.kind \in PythonEnvKind

\* The best kind of a record: the most preferred kind in its kind set.
BestKind(env) ==
    CHOOSE k \in Range(env.kind) :
        \A j \in Range(env.kind) : KindRank(k) <= KindRank(j)

\* The base the spec prescribes: the operand with the better best kind, then
\* the operand with the better provider, then old.
ExpectedBase(old, new) ==
    IF KindRank(BestKind(old)) < KindRank(BestKind(new)) THEN old
    ELSE IF KindRank(BestKind(new)) < KindRank(BestKind(old)) THEN new
    ELSE IF ExtensionRank(new.extensionId) < ExtensionRank(old.extensionId) THEN new
    ELSE old

\* C18: the base of resolveEnvCollision(old, new) is the operand whose best
\* kind ranks higher, on a tie the operand whose provider ranks higher, and
\* on both ties old: the result keeps the base's paths and provider id, and
\* its kind array starts with the base's kinds.
C18_BaseByKindThenProviderThenOld ==
    pure.phase = "returned" =>
        LET base == ExpectedBase(pure.a, pure.b)
        IN /\ pure.ab.executablePath = base.executablePath
           /\ pure.ab.envPath = base.envPath
           /\ pure.ab.extensionId = base.extensionId
           /\ SubSeq(pure.ab.kind, 1, Len(base.kind)) = SortKinds(base.kind)

\* A call whose operands tie on best kind and on provider and differ in
\* their other kinds: old is the base, in either call order.
C18_Witness ==
    /\ pure.phase = "returned"
    /\ BestKind(pure.a) = BestKind(pure.b)
    /\ pure.a.extensionId = pure.b.extensionId
    /\ Len(pure.a.kind) = 2
    /\ Len(pure.b.kind) = 2
    /\ Range(pure.a.kind) # Range(pure.b.kind)
    /\ SubSeq(pure.ab.kind, 1, 2) = SortKinds(pure.a.kind)
    /\ SubSeq(pure.ba.kind, 1, 2) = SortKinds(pure.b.kind)

\* C19: in the adapter an upstream UpdateEvent that carries a record for an
\* index the adapter has already yielded is forwarded as an UpdateEvent at
\* that index, also when it arrives before the consumer asks for the next
\* value; the buffer holds every yielded record from the moment it is
\* yielded.
C19_AdapterForwardsYieldedIndex ==
    [][(/\ stage = "adapter"
        /\ nUpdates' = nUpdates + 1
        /\ last'.new # UndefinedEnv
        /\ last'.upIndex < Len(yielded)) =>
           /\ Len(seen) = Len(yielded)
           /\ \E e \in Range(didUpdate'.calls) :
                  e.type = "update" /\ e.index = last'.upIndex]_vars

\* C20: the in-flight counter is balanced on every path: it is never
\* negative and, between steps (no listener invocation or background merge
\* executing), it is 0, also after a listener invocation that threw on an
\* undefined update.
C20_PendingBalanced ==
    /\ state.pending >= 0
    /\ state.pending = 0

\* The consumer's copy of the primary values after it has applied, in order
\* of delivery, the UpdateEvents of a delivered log.
RECURSIVE ApplyUpdates(_, _)
ApplyUpdates(copy, events) ==
    IF events = <<>> THEN copy
    ELSE LET e == Head(events)
             next == IF e.type = "update" /\ e.index + 1 \in DOMAIN copy
                     THEN [copy EXCEPT ![e.index + 1] = e.update]
                     ELSE copy
         IN ApplyUpdates(next, Tail(events))

\* C21: no refinement is lost: once the reducer's primary sequence is
\* exhausted and Finished has been delivered, a consumer that subscribed
\* before pulling and applied every delivered UpdateEvent to its copy of the
\* primary values holds a copy equal to the reducer's buffer.
C21_ConsumerCopyEqualsBuffer ==
    (stage = "reducer" /\ pc = "end" /\ FinishedEmitted) =>
        ApplyUpdates(yielded, didUpdate.events) = seen

====
